---------------------------- MODULE Spec2Model ----------------------------
(***************************************************************************)
(* A model of optuna/study/_multi_objective.py: Pareto dominance between   *)
(* trials, the Pareto front of a list of trials, the non-domination rank   *)
(* of an array of loss vectors and the constrained fast non-dominated      *)
(* sort.                                                                   *)
(*                                                                         *)
(* Encoding.  Python's None is the empty sequence <<>> and a present       *)
(* value v is <<v>> (Some(v)).  A numpy array of shape (n, d) is a         *)
(* sequence of n rows, each a sequence of d integers, together with the    *)
(* number of objectives d (an empty array still has a shape).  Positions   *)
(* are 1-based as in TLA+; rank values are 0-based as in the code.         *)
(* float("inf") is the integer Inf, larger than every finite value of the  *)
(* model, and NaN is the integer NaN, which every comparison below treats  *)
(* as numpy does (every ordering comparison with NaN is false).            *)
(***************************************************************************)
EXTENDS Integers, Sequences, FiniteSets, TLC

VARIABLES
    pc,                            \* position of the call that is modelled
    loss_values,                   \* argument: rows of the loss array
    n_objectives,                  \* argument: loss_values.shape[1]
    n_below,                       \* argument: None or Some(int)
    penalty,                       \* argument: None or Some(array of floats)
    unique_lexsorted_loss_values,  \* local of _calculate_nondomination_rank
    order_inv,                     \* local of _calculate_nondomination_rank
    n_below_clipped,               \* local n_below after lines 223-224
    ranks,                         \* local of _calculate_nondomination_rank
    rank,                          \* local of _calculate_nondomination_rank
    indices,                       \* local of _calculate_nondomination_rank
    result,                        \* outcome of the call
    trials,                        \* argument: list of FrozenTrial
    directions,                    \* argument: list of StudyDirection
    consider_constraint,           \* argument of the front functions
    pareto_front_2d,               \* outcome of _get_pareto_front_trials_2d
    pareto_front_nd,               \* outcome of _get_pareto_front_trials_nd
    trial0,                        \* argument of the last call of _dominates
    trial1,                        \* argument of the last call of _dominates
    normalized_values0,            \* local of _dominates
    normalized_values1,            \* local of _dominates
    dominates_log                  \* outcome of every call of _dominates so far

vars == <<pc, loss_values, n_objectives, n_below, penalty,
          unique_lexsorted_loss_values, order_inv, n_below_clipped, ranks,
          rank, indices, result, trials, directions, consider_constraint,
          pareto_front_2d, pareto_front_nd, trial0, trial1,
          normalized_values0, normalized_values1, dominates_log>>

(***************************************************************************)
(* Bounds of the model.                                                    *)
(***************************************************************************)
MaxLen == 3        \* most rows of a loss array
MaxVal == 1        \* largest finite objective value
MaxTrials == 3     \* most trials of a study

\* The loop of _calculate_nondomination_rank is followed for at most this
\* many rounds.  A run that returns needs at most one round per unique row,
\* so only runs that never return reach it.
MaxRank == MaxLen + 2

None == <<>>
Some(v) == <<v>>

Inf == 1000
NaN == 999

Min2(a, b) == IF a <= b THEN a ELSE b

RECURSIVE SeqMax(_, _)
SeqMax(s, initial) ==
    IF s = <<>> THEN initial
    ELSE LET m == SeqMax(Tail(s), initial) IN IF Head(s) > m THEN Head(s) ELSE m

\* arr[mask]: the elements of arr at the positions where mask holds.
RECURSIVE Compress(_, _)
Compress(arr, mask) ==
    IF arr = <<>> THEN <<>>
    ELSE (IF Head(mask) THEN <<Head(arr)>> ELSE <<>>)
         \o Compress(Tail(arr), Tail(mask))

Not(mask) == [i \in 1..Len(mask) |-> ~mask[i]]

CountNonzero(mask) == Cardinality({i \in 1..Len(mask) : mask[i]})


Range(s) == {s[i] : i \in 1..Len(s)}

Zeros(n) == [i \in 1..n |-> 0]

\* The outcome of a call: it returns a value, raises, or never returns.
NoResult == [kind |-> "none", value |-> <<>>]
Returned(v) == [kind |-> "returned", value |-> v]
Raised(e) == [kind |-> e, value |-> <<>>]
Diverges == [kind |-> "never returns", value |-> <<>>]

(***************************************************************************)
(* numpy.unique                                                            *)
(***************************************************************************)
RECURSIVE LexLess(_, _)
LexLess(a, b) ==
    IF a = <<>> THEN FALSE
    ELSE IF Head(a) # Head(b) THEN Head(a) < Head(b)
    ELSE LexLess(Tail(a), Tail(b))

RECURSIVE SortRows(_)
SortRows(S) ==
    IF S = {} THEN <<>>
    ELSE LET m == CHOOSE x \in S : \A y \in S : x = y \/ LexLess(x, y)
         IN  <<m>> \o SortRows(S \ {m})

\* np.unique(loss_values, return_inverse=True, axis=0): the distinct rows in
\* lexicographic order, and for every input row its position among them.
UniqueRows(rows) == SortRows(Range(rows))

InverseOf(rows, uniq) ==
    [i \in 1..Len(rows) |-> CHOOSE k \in 1..Len(uniq) : uniq[k] = rows[i]]

\* np.unique(loss_values[:, 0], return_inverse=True)[1]: the 0-based position
\* of each value among the sorted distinct values.
DenseRank(column) ==
    [i \in 1..Len(column) |->
        Cardinality({v \in Range(column) : v < column[i]})]

(***************************************************************************)
(* _is_pareto_front and its three variants                                 *)
(***************************************************************************)
\* np.minimum.accumulate
RECURSIVE CumMin(_)
CumMin(column) ==
    IF Len(column) <= 1 THEN column
    ELSE LET front == CumMin(SubSeq(column, 1, Len(column) - 1))
         IN  Append(front, Min2(front[Len(front)], column[Len(column)]))

IsParetoFront2dNoStrictMin(rows) ==
    LET column == [i \in 1..Len(rows) |-> rows[i][2]]
        cummin_value1 == CumMin(column)
    IN  [i \in 1..Len(rows) |-> i = 1 \/ cummin_value1[i] = column[i]]

IsParetoFront2d(rows) ==
    LET column == [i \in 1..Len(rows) |-> rows[i][2]]
        cummin_value1 == CumMin(column)
        is_value1_min == [i \in 1..Len(rows) |-> cummin_value1[i] = column[i]]
    IN  [i \in 1..Len(rows) |->
            \/ i = 1
            \/ /\ is_value1_min[i]
               /\ cummin_value1[i] < cummin_value1[i - 1]]

\* The loop of _is_pareto_front_nd: the positions it marks on the front.  The
\* first live row is marked, and only the rows that are smaller than it on
\* some axis stay live.
RECURSIVE IsParetoFrontNdLoop(_, _)
IsParetoFrontNdLoop(lv, nondominated_indices) ==
    IF lv = <<>> THEN {}
    ELSE LET nondominated_and_not_top ==
                 [k \in 1..Len(lv) |->
                     \E axis \in 1..Len(lv[k]) : lv[k][axis] < lv[1][axis]]
         IN  {nondominated_indices[1]} \cup
             IsParetoFrontNdLoop(
                 Compress(lv, nondominated_and_not_top),
                 Compress(nondominated_indices, nondominated_and_not_top))

IsParetoFrontNd(rows) ==
    LET marked == IsParetoFrontNdLoop(rows, [i \in 1..Len(rows) |-> i])
    IN  [i \in 1..Len(rows) |-> i \in marked]

\* Lines 206-213.  For one objective line 209 reads row 0, which an empty
\* array does not have: the call raises IndexError instead of giving a mask.
\* _calculate_nondomination_rank never gets there: it returns at line 229
\* for one objective.
IsParetoFront(rows, d) ==
    IF d = 1
    THEN IF rows = <<>>
         THEN Raised("IndexError: index 0 is out of bounds for axis 0 with size 0")
         ELSE [i \in 1..Len(rows) |-> rows[i][1] = rows[1][1]]
    ELSE IF d = 2 THEN IsParetoFront2d(rows)
    ELSE IsParetoFrontNd(rows)

(***************************************************************************)
(* _calculate_nondomination_rank                                           *)
(***************************************************************************)
\* Python's `n_below or n`.
OrElse(nb, n) == IF nb = None \/ nb[1] = 0 THEN n ELSE nb[1]

\* Line 219: the early return of all zeros.
NoBudget(nb) == nb # None /\ nb[1] <= 0

\* Lines 223-224.
ClipNBelow(nb, n) == Min2(OrElse(nb, n), n)

LoopCondOffByOne(n_uniq, live, nb) == n_uniq - Len(live) <= nb

\* Line 241: the loop goes on while fewer than n_below unique rows are ranked.
LoopCond(n_uniq, live, nb) == n_uniq - Len(live) < nb

\* Lines 242-247: one round of the loop on the frame st.
LoopBody(st, d) ==
    LET on_front == IsParetoFront(st.rows, d)
        on_front_indices == Range(Compress(st.indices, on_front))
    IN  [rows    |-> Compress(st.rows, Not(on_front)),
         indices |-> Compress(st.indices, Not(on_front)),
         ranks   |-> [k \in 1..Len(st.ranks) |->
                         IF k \in on_front_indices THEN st.rank
                         ELSE st.ranks[k]],
         rank    |-> st.rank + 1]

\* Line 249: ranks[indices] = rank, the rows still live get the current rank.
WorstRanks(st) ==
    [k \in 1..Len(st.ranks) |->
        IF k \in Range(st.indices) THEN st.rank ELSE st.ranks[k]]

\* Line 250: ranks[order_inv], read from the array line 249 has just written.
FinalRanks(st, inv) ==
    LET worst == WorstRanks(st)
    IN  [i \in 1..Len(inv) |-> worst[inv[i]]]

\* Lines 237-240: the frame the loop starts from.
FirstFrame(uniq) ==
    [rows |-> uniq, indices |-> [k \in 1..Len(uniq) |-> k],
     ranks |-> Zeros(Len(uniq)), rank |-> 0]

\* The loop run to its end: the frame it exits with, or None when it is
\* still running after `fuel` rounds.
RECURSIVE RunLoop(_, _, _, _, _)
RunLoop(st, d, n_uniq, nb, fuel) ==
    IF ~LoopCond(n_uniq, st.indices, nb) THEN Some(st)
    ELSE IF fuel = 0 THEN None
    ELSE RunLoop(LoopBody(st, d), d, n_uniq, nb, fuel - 1)

\* _calculate_nondomination_rank(rows, n_below=nb) as one call.
CalculateNondominationRank(rows, d, nb) ==
    IF NoBudget(nb) THEN Returned(Zeros(Len(rows)))
    ELSE IF d = 1 THEN Returned(DenseRank([i \in 1..Len(rows) |-> rows[i][1]]))
    ELSE LET uniq == UniqueRows(rows)
             last == RunLoop(FirstFrame(uniq), d, Len(uniq),
                             ClipNBelow(nb, Len(rows)), MaxRank)
         IN  IF last = None THEN Diverges
             ELSE Returned(FinalRanks(last[1], InverseOf(rows, uniq)))

(***************************************************************************)
(* The calls of _calculate_nondomination_rank, round by round              *)
(***************************************************************************)
\* One- and two-objective rows take their values from 0..MaxVal (one more
\* value for a single objective, so that three ranks can differ there);
\* three-objective rows are the corners of the unit cube.
ValueRange(d) ==
    IF d = 1 THEN 0..(MaxVal + 1) ELSE IF d = 2 THEN 0..MaxVal ELSE 0..1

Rows(d) == [1..d -> ValueRange(d)]

Arrays(d) == UNION {[1..n -> Rows(d)] : n \in 0..MaxLen}

NBelowArgs == {None} \cup {Some(k) : k \in (-1)..MaxLen}

NoFrame ==
    /\ unique_lexsorted_loss_values = <<>>
    /\ order_inv = <<>>
    /\ n_below_clipped = 0
    /\ ranks = <<>>
    /\ rank = 0
    /\ indices = <<>>

NoTrials ==
    /\ trials = <<>>
    /\ directions = <<>>
    /\ consider_constraint = FALSE
    /\ pareto_front_2d = NoResult
    /\ pareto_front_nd = NoResult
    /\ trial0 = None
    /\ trial1 = None
    /\ normalized_values0 = <<>>
    /\ normalized_values1 = <<>>
    /\ dominates_log = <<>>

frame == <<unique_lexsorted_loss_values, order_inv, n_below_clipped, ranks,
           rank, indices>>
arrayArgs == <<loss_values, n_objectives, n_below, penalty>>
trialVars == <<trials, directions, consider_constraint, pareto_front_2d,
               pareto_front_nd, trial0, trial1, normalized_values0,
               normalized_values1, dominates_log>>

InitRank ==
    /\ pc = "rank:start"
    /\ n_objectives \in 1..3
    /\ loss_values \in Arrays(n_objectives)
    /\ n_below \in NBelowArgs
    /\ penalty = None
    /\ result = NoResult
    /\ NoFrame
    /\ NoTrials

\* Lines 219-220.
RankNoBudget ==
    /\ pc = "rank:start"
    /\ NoBudget(n_below)
    /\ result' = Returned(Zeros(Len(loss_values)))
    /\ pc' = "rank:done"
    /\ UNCHANGED <<arrayArgs, frame, trialVars>>

\* Lines 223-229.
RankSingleObjective ==
    /\ pc = "rank:start"
    /\ ~NoBudget(n_below)
    /\ n_objectives = 1
    /\ n_below_clipped' = ClipNBelow(n_below, Len(loss_values))
    /\ ranks' = DenseRank([i \in 1..Len(loss_values) |-> loss_values[i][1]])
    /\ result' = Returned(ranks')
    /\ pc' = "rank:done"
    /\ UNCHANGED <<arrayArgs, unique_lexsorted_loss_values, order_inv,
                   rank, indices, trialVars>>

\* Lines 223-240.
RankSetup ==
    /\ pc = "rank:start"
    /\ ~NoBudget(n_below)
    /\ n_objectives # 1
    /\ LET uniq == UniqueRows(loss_values)
           first == FirstFrame(uniq)
       IN  /\ n_below_clipped' = ClipNBelow(n_below, Len(loss_values))
           /\ unique_lexsorted_loss_values' = first.rows
           /\ order_inv' = InverseOf(loss_values, uniq)
           /\ ranks' = first.ranks
           /\ rank' = first.rank
           /\ indices' = first.indices
    /\ pc' = "rank:loop"
    /\ UNCHANGED <<arrayArgs, result, trialVars>>

ThisFrame ==
    [rows |-> unique_lexsorted_loss_values, indices |-> indices,
     ranks |-> ranks, rank |-> rank]

\* Lines 241-247: one round of the loop.
RankLoopRound ==
    /\ pc = "rank:loop"
    /\ LoopCond(Len(ranks), indices, n_below_clipped)
    /\ rank < MaxRank
    /\ LET next == LoopBody(ThisFrame, n_objectives)
       IN  /\ unique_lexsorted_loss_values' = next.rows
           /\ indices' = next.indices
           /\ ranks' = next.ranks
           /\ rank' = next.rank
    /\ UNCHANGED <<pc, arrayArgs, order_inv, n_below_clipped, result, trialVars>>

\* Lines 241, 249-250: the loop exits and the ranks are returned.
RankLoopExit ==
    /\ pc = "rank:loop"
    /\ ~LoopCond(Len(ranks), indices, n_below_clipped)
    /\ ranks' = WorstRanks(ThisFrame)
    /\ result' = Returned(FinalRanks(ThisFrame, order_inv))
    /\ pc' = "rank:done"
    /\ UNCHANGED <<arrayArgs, unique_lexsorted_loss_values, indices, rank,
                   order_inv, n_below_clipped, trialVars>>

NextRank ==
    \/ RankNoBudget
    \/ RankSingleObjective
    \/ RankSetup
    \/ RankLoopRound
    \/ RankLoopExit

SpecRank == InitRank /\ [][NextRank]_vars

\* The calls with two or more objectives, on arrays of fewer than MaxLen
\* rows.  The interpreter runs a call to its end: a step that can be taken
\* is taken.
InitRankMany ==
    /\ InitRank
    /\ n_objectives >= 2
    /\ Len(loss_values) < MaxLen

NextRankMany ==
    \/ RankNoBudget
    \/ RankSetup
    \/ RankLoopRound
    \/ RankLoopExit

FairSpecRank ==
    InitRankMany /\ [][NextRankMany]_vars /\ WF_vars(NextRankMany)

\* The round-by-round run and the call as one operator agree.
RankRunsAgree ==
    pc = "rank:done" =>
        result = CalculateNondominationRank(loss_values, n_objectives, n_below)

(***************************************************************************)
(* Claims about _calculate_nondomination_rank (SpecRank, FairSpecRank)     *)
(***************************************************************************)
\* Row a dominates row b: a <= b on every axis and a # b.
DominatesRow(a, b) ==
    a # b /\ \A axis \in 1..Len(a) : a[axis] <= b[axis]

RankReturned == pc = "rank:done" /\ result.kind = "returned"

\* C1 as stated: for every n_below (absent or any integer), whenever row a
\* dominates row b the returned ranks satisfy rank(a) < rank(b).
C1_StrictForEveryNBelow ==
    RankReturned =>
        \A i, j \in 1..Len(loss_values) :
            DominatesRow(loss_values[i], loss_values[j])
                => result.value[i] < result.value[j]

\* C1 as amended: whenever ranks are returned and row a dominates row b,
\* rank(a) <= rank(b) for every n_below, and rank(a) < rank(b) when n_below
\* is absent or at least the number of rows.
C1_DominanceMonotonic ==
    RankReturned =>
        \A i, j \in 1..Len(loss_values) :
            DominatesRow(loss_values[i], loss_values[j]) =>
                /\ result.value[i] <= result.value[j]
                /\ (n_below = None \/ n_below[1] >= Len(loss_values))
                       => result.value[i] < result.value[j]

\* C1's case: a full ranking of two or more objectives was returned for an
\* array in which one row dominates another.
C1_Witness ==
    /\ RankReturned
    /\ n_below = None
    /\ n_objectives >= 2
    /\ \E i, j \in 1..Len(loss_values) :
           /\ DominatesRow(loss_values[i], loss_values[j])
           /\ result.value[i] < result.value[j]

\* C4 as stated, for every number of objectives: with n_below = k >= 1 there
\* is a final rank F such that at most k distinct returned ranks lie below F
\* and every other row has exactly rank F.
C4_BudgetForEveryObjectiveCount ==
    (RankReturned /\ n_below # None /\ n_below[1] >= 1) =>
        \E F \in 0..(MaxLen + 1) :
            /\ Cardinality({v \in Range(result.value) : v < F}) <= n_below[1]
            /\ \A i \in 1..Len(loss_values) : result.value[i] <= F

\* C4 as amended: with two or more objectives and n_below = k >= 1, whenever
\* ranks are returned, at most k distinct returned ranks lie below the rank
\* the loop exits with, every row ranked by a round of the loop has a rank
\* below it, and every row still live at the exit has exactly that rank.
C4_BudgetManyObjectives ==
    (RankReturned /\ n_objectives >= 2 /\ n_below # None /\ n_below[1] >= 1) =>
        /\ Cardinality({v \in Range(result.value) : v < rank}) <= n_below[1]
        /\ \A i \in 1..Len(loss_values) :
               IF order_inv[i] \in Range(indices)
               THEN result.value[i] = rank
               ELSE result.value[i] < rank

\* C4's case: the budget 1 stopped the loop with rows still live although
\* one of them dominates another, and all of them got the final rank.
C4_Witness ==
    /\ RankReturned
    /\ n_objectives >= 2
    /\ n_below = Some(1)
    /\ Len(indices) >= 2
    /\ \E i, j \in 1..Len(loss_values) :
           /\ DominatesRow(loss_values[i], loss_values[j])
           /\ result.value[i] = rank
           /\ result.value[j] = rank

\* C8: for two or more objectives (the empty array and arrays with duplicate
\* rows included) the loop exits, because the budget is met or because the
\* live set is empty, and a rank array is returned.  A round of the loop on
\* an empty live set changes nothing but rank, so the loop exits only if its
\* condition is false whenever the live set is empty.
C8_LoopExitsOnEmptyLiveSet ==
    (pc = "rank:loop" /\ Len(indices) = 0)
        => ~LoopCond(Len(ranks), indices, n_below_clipped)

\* The same as a property of the runs of FairSpecRank: every call returns.
\* TLC finds the run that is still in the loop after MaxRank rounds.
RankTerminates == <>(pc = "rank:done")

(***************************************************************************)
(* _fast_non_dominated_sort                                                *)
(***************************************************************************)
IsNan(x) == x = NaN

\* arr[mask] = vals: the k-th position where mask holds gets vals[k].
Scatter(arr, mask, vals) ==
    [i \in 1..Len(arr) |->
        IF mask[i]
        THEN vals[Cardinality({j \in 1..i : mask[j]})]
        ELSE arr[i]]

\* Line 155.
IsFeasible(p) == [i \in 1..Len(p) |-> ~IsNan(p[i]) /\ p[i] <= 0]

\* Line 163.
IsInfeasible(p) == [i \in 1..Len(p) |-> ~IsNan(p[i]) /\ p[i] > 0]

\* Line 151.
IsPenaltyNan(p) == [i \in 1..Len(p) |-> IsNan(p[i])]

\* Line 165: `if is_infeasible > 0:` asks for the truth value of a boolean
\* array.  numpy raises ValueError for an array of two or more elements and
\* gives the element itself for an array of one; for an empty array it gives
\* False (with a deprecation warning) up to numpy 2.1 and raises ValueError
\* from numpy 2.2 on.
ArrayTruth(mask) ==
    IF Len(mask) = 0 THEN {"False", "ValueError"}
    ELSE IF Len(mask) = 1 THEN {IF mask[1] THEN "True" ELSE "False"}
    ELSE {"ValueError"}

\* Lines 150-177, with `truth` the outcome of the test of line 165.
ConstrainedSort(rows, d, p, nb, truth) ==
    LET is_penalty_nan == IsPenaltyNan(p)
        unranked == [i \in 1..Len(rows) |-> -1]
        n_below1 == OrElse(nb, Len(rows))
        is_feasible == IsFeasible(p)
        feasible == CalculateNondominationRank(
                        Compress(rows, is_feasible), d, Some(n_below1))
        rank1 == Scatter(unranked, is_feasible, feasible.value)
        n_below2 == n_below1 - CountNonzero(is_feasible)
        top_rank_in_infeasible == SeqMax(Compress(rank1, is_feasible), -1) + 1
        is_infeasible == IsInfeasible(p)
        n_infeasible == CountNonzero(is_infeasible)
        ranks_in_infeas == DenseRank(Compress(p, is_infeasible))
        rank2 == IF truth = "True"
                 THEN Scatter(rank1, is_infeasible,
                              [k \in 1..Len(ranks_in_infeas) |->
                                  ranks_in_infeas[k] + top_rank_in_infeasible])
                 ELSE rank1
        n_below3 == IF truth = "True" THEN n_below2 - n_infeasible ELSE n_below2
        top_rank_in_penalty_nan ==
            SeqMax(Compress(rank2, Not(is_penalty_nan)), -1) + 1
        unknown == CalculateNondominationRank(
                       Compress(rows, is_penalty_nan), d, Some(n_below3))
        rank3 == Scatter(rank2, is_penalty_nan,
                         [k \in 1..Len(unknown.value) |->
                             unknown.value[k] + top_rank_in_penalty_nan])
    IN  IF feasible = Diverges THEN Diverges
        ELSE IF truth = "ValueError"
        THEN Raised("ValueError: the truth value of an array is ambiguous")
        ELSE IF unknown = Diverges THEN Diverges
        ELSE Returned(rank3)

PenaltyValues == {NaN} \cup ((-1)..2)

\* No penalty, or an array of as many entries as there are rows or one less.
PenaltyArgs(n) ==
    {None} \cup {Some(p) : p \in [1..n -> PenaltyValues]}
           \cup (IF n = 0 THEN {}
                 ELSE {Some(p) : p \in [1..(n - 1) -> PenaltyValues]})

InitSort ==
    /\ pc = "sort:start"
    /\ n_objectives \in 1..2
    /\ loss_values \in Arrays(n_objectives)
    /\ penalty \in PenaltyArgs(Len(loss_values))
    /\ n_below \in NBelowArgs
    /\ result = NoResult
    /\ NoFrame
    /\ NoTrials

\* Lines 141-142.
SortUnconstrained ==
    /\ pc = "sort:start"
    /\ penalty = None
    /\ result' = CalculateNondominationRank(loss_values, n_objectives, n_below)
    /\ pc' = "sort:done"
    /\ UNCHANGED <<arrayArgs, frame, trialVars>>

\* Lines 144-148.
SortLengthMismatch ==
    /\ pc = "sort:start"
    /\ penalty # None
    /\ Len(penalty[1]) # Len(loss_values)
    /\ result' = Raised("ValueError: the length of penalty and loss_values must be same")
    /\ pc' = "sort:done"
    /\ UNCHANGED <<arrayArgs, frame, trialVars>>

\* Lines 150-177.
SortConstrained ==
    /\ pc = "sort:start"
    /\ penalty # None
    /\ Len(penalty[1]) = Len(loss_values)
    /\ \E truth \in ArrayTruth(IsInfeasible(penalty[1])) :
           result' = ConstrainedSort(loss_values, n_objectives, penalty[1],
                                     n_below, truth)
    /\ pc' = "sort:done"
    /\ UNCHANGED <<arrayArgs, frame, trialVars>>

NextSort ==
    \/ SortUnconstrained
    \/ SortLengthMismatch
    \/ SortConstrained

SpecSort == InitSort /\ [][NextSort]_vars

(***************************************************************************)
(* Claims about _fast_non_dominated_sort (SpecSort)                        *)
(***************************************************************************)
\* A call with a penalty array of the length of loss_values has ended.
PenalisedSortEnded ==
    /\ pc = "sort:done"
    /\ penalty # None
    /\ Len(penalty[1]) = Len(loss_values)

\* C2: when at least one record is feasible, the sort returns ranks in which
\* every feasible record has a smaller rank than every infeasible record and
\* every record of unknown feasibility.
C2_FeasibleBeforeTheRest ==
    (PenalisedSortEnded /\ \E i \in 1..Len(loss_values) : IsFeasible(penalty[1])[i])
    =>  /\ result.kind = "returned"
        /\ \A i, j \in 1..Len(loss_values) :
               (IsFeasible(penalty[1])[i] /\ ~IsFeasible(penalty[1])[j])
                   => result.value[i] < result.value[j]

\* C3, for an array of at least one row: with no penalty, or with a penalty
\* array whose entries are all feasible, the sort returns what
\* _calculate_nondomination_rank returns on the same loss values and n_below.
C3_AllFeasibleIsPlainRank ==
    (/\ pc = "sort:done"
     /\ loss_values # <<>>
     /\ \/ penalty = None
        \/ /\ Len(penalty[1]) = Len(loss_values)
           /\ \A i \in 1..Len(loss_values) : IsFeasible(penalty[1])[i])
    =>  result = CalculateNondominationRank(loss_values, n_objectives, n_below)

\* The largest rank of a feasible record plus 1, or 0 without any.
FeasibleOffset ==
    SeqMax(Compress(result.value, IsFeasible(penalty[1])), -1) + 1

\* C7: when some record is infeasible, the sort returns ranks in which the
\* rank of every infeasible record is the offset (the largest rank of a
\* feasible record plus 1, or 0) plus the number of distinct infeasible
\* penalties smaller than its own.
C7_InfeasibleRankedByPenalty ==
    (PenalisedSortEnded /\ \E i \in 1..Len(loss_values) : IsInfeasible(penalty[1])[i])
    =>  /\ result.kind = "returned"
        /\ \A i \in 1..Len(loss_values) :
               IsInfeasible(penalty[1])[i] =>
                   result.value[i] =
                       FeasibleOffset +
                       Cardinality({penalty[1][j] : j \in
                           {k \in 1..Len(loss_values) :
                               /\ IsInfeasible(penalty[1])[k]
                               /\ penalty[1][k] < penalty[1][i]}})

\* C10, for an array of at least one row: with a penalty array of the length
\* of loss_values the sort returns, without an error, ranks that are all >= 0.
C10_NoErrorNoUnassignedRank ==
    (PenalisedSortEnded /\ loss_values # <<>>)
    =>  /\ result.kind = "returned"
        /\ \A i \in 1..Len(loss_values) : result.value[i] >= 0

(***************************************************************************)
(* _normalize_value and _dominates                                         *)
(***************************************************************************)
\* Lines 285-292.
NormalizeValue(value, direction) ==
    LET v == IF value = None THEN Inf ELSE value[1]
    IN  IF direction = "MAXIMIZE" THEN -v ELSE v

NormalizedValues(values, dirs) ==
    [k \in 1..Min2(Len(values), Len(dirs)) |->
        NormalizeValue(values[k], dirs[k])]

\* Lines 279-282 without the test of line 279.
WeaklyBetterNoEqualCheck(n0, n1) ==
    \A k \in 1..Min2(Len(n0), Len(n1)) : n0[k] <= n1[k]

\* Lines 279-282, on the normalized values of the two trials.
WeaklyBetter(n0, n1) ==
    IF n0 = n1 THEN FALSE
    ELSE \A k \in 1..Min2(Len(n0), Len(n1)) : n0[k] <= n1[k]

\* Lines 259-263: the answer the states of the trials give, or None.
ByState(t0, t1) ==
    IF t0.state # "COMPLETE" THEN Some(FALSE)
    ELSE IF t1.state # "COMPLETE" THEN Some(TRUE)
    ELSE None

\* Lines 268-274: the error a mismatch of the lengths raises, or None.
LengthError(t0, t1, dirs) ==
    IF Len(t0.values) # Len(t1.values)
    THEN Some("ValueError: trials with different numbers of objectives")
    ELSE IF Len(t0.values) # Len(dirs)
    THEN Some("ValueError: the number of the values and of the objectives are mismatched")
    ELSE None

\* _dominates(trial0, trial1, directions), as the outcome of the call.
DominatesOutcome(t0, t1, dirs) ==
    IF ByState(t0, t1) # None THEN Returned(ByState(t0, t1)[1])
    ELSE IF LengthError(t0, t1, dirs) # None
    THEN Raised(LengthError(t0, t1, dirs)[1])
    ELSE Returned(WeaklyBetter(NormalizedValues(t0.values, dirs),
                               NormalizedValues(t1.values, dirs)))

\* _dominates as a predicate, for trials it raises no error on.
Dominates(t0, t1, dirs) ==
    LET outcome == DominatesOutcome(t0, t1, dirs)
    IN  outcome.kind = "returned" /\ outcome.value

(***************************************************************************)
(* _get_feasible_trials and the two Pareto front functions                 *)
(***************************************************************************)
\* Lines 16-22.
IsFeasibleTrial(t) ==
    \/ t.constraints = None
    \/ \A k \in 1..Len(t.constraints[1]) : t.constraints[1][k] <= 0

GetFeasibleTrials(ts) == SelectSeq(ts, IsFeasibleTrial)

IsComplete(t) == t.state = "COMPLETE"

\* Lines 30-32 and 64-66.
FilterTrials(ts, cc) ==
    LET complete == SelectSeq(ts, IsComplete)
    IN  IF cc THEN GetFeasibleTrials(complete) ELSE complete

\* list.sort(key=...): a stable sort of <<key, item>> pairs by their keys,
\* which are tuples of numbers.  x goes behind every pair whose key is not
\* greater than its own.
RECURSIVE InsertSorted(_, _)
InsertSorted(x, sorted) ==
    IF sorted = <<>> THEN <<x>>
    ELSE IF LexLess(x[1], Head(sorted)[1]) THEN <<x>> \o sorted
    ELSE <<Head(sorted)>> \o InsertSorted(x, Tail(sorted))

RECURSIVE StableSort(_)
StableSort(pairs) ==
    IF pairs = <<>> THEN <<>>
    ELSE InsertSorted(pairs[Len(pairs)],
                      StableSort(SubSeq(pairs, 1, Len(pairs) - 1)))

\* The items of sorted <<key, item>> pairs.
Items(pairs) == [i \in 1..Len(pairs) |-> pairs[i][2]]

\* The key of line 39-42: the two normalized values of a trial.
ValueKey(trial, dirs) ==
    <<NormalizeValue(trial.values[1], dirs[1]),
      NormalizeValue(trial.values[2], dirs[2])>>

\* Lines 47-52 without line 52: every trial is compared with the first one.
RECURSIVE SweepAgainstFirst(_, _, _)
SweepAgainstFirst(rest, last_nondominated_trial, dirs) ==
    IF rest = <<>> THEN <<>>
    ELSE IF Dominates(last_nondominated_trial, Head(rest), dirs)
    THEN SweepAgainstFirst(Tail(rest), last_nondominated_trial, dirs)
    ELSE <<Head(rest)>>
         \o SweepAgainstFirst(Tail(rest), last_nondominated_trial, dirs)

\* Lines 47-52: the trials behind the first that the sweep appends.
RECURSIVE Sweep(_, _, _)
Sweep(rest, last_nondominated_trial, dirs) ==
    IF rest = <<>> THEN <<>>
    ELSE IF Dominates(last_nondominated_trial, Head(rest), dirs)
    THEN Sweep(Tail(rest), last_nondominated_trial, dirs)
    ELSE <<Head(rest)>> \o Sweep(Tail(rest), Head(rest), dirs)

\* Lines 25-55.
GetParetoFrontTrials2d(ts, dirs, cc) ==
    LET filtered == FilterTrials(ts, cc)
        sorted == Items(StableSort([i \in 1..Len(filtered) |->
                      <<ValueKey(filtered[i], dirs), filtered[i]>>]))
        pareto_front == <<sorted[1]>> \o Sweep(Tail(sorted), sorted[1], dirs)
    IN  IF filtered = <<>> THEN <<>>
        ELSE Items(StableSort([i \in 1..Len(pareto_front) |->
                      <<<<pareto_front[i].number>>, pareto_front[i]>>]))

\* Lines 58-79.
GetParetoFrontTrialsNd(ts, dirs, cc) ==
    LET filtered == FilterTrials(ts, cc)
        NotDominated(trial) ==
            ~\E k \in 1..Len(filtered) : Dominates(filtered[k], trial, dirs)
    IN  SelectSeq(filtered, NotDominated)

(***************************************************************************)
(* The calls of _dominates on two trials (SpecDom)                         *)
(***************************************************************************)
Directions == {"MINIMIZE", "MAXIMIZE"}

\* An objective value: absent, or a number of 0..maxv.
TrialValues(maxv) == {None} \cup {Some(v) : v \in 0..maxv}

Trial(number, state, values, constraints) ==
    [number |-> number, state |-> state, values |-> values,
     constraints |-> constraints]

\* Trials of one or two objectives, complete or failed.
DomValues == UNION {[1..d -> TrialValues(MaxVal)] : d \in 1..2}

Pairs == (1..2) \X (1..2)

NoArrays ==
    /\ loss_values = <<>>
    /\ n_objectives = 0
    /\ n_below = None
    /\ penalty = None
    /\ result = NoResult
    /\ NoFrame

InitDom ==
    /\ pc = "dominates"
    /\ \E s0, s1 \in {"COMPLETE", "FAIL"} : \E v0, v1 \in DomValues :
           trials = <<Trial(0, s0, v0, None), Trial(1, s1, v1, None)>>
    /\ directions \in UNION {[1..d -> Directions] : d \in 1..2}
    /\ consider_constraint = FALSE
    /\ pareto_front_2d = NoResult
    /\ pareto_front_nd = NoResult
    /\ trial0 = None
    /\ trial1 = None
    /\ normalized_values0 = <<>>
    /\ normalized_values1 = <<>>
    /\ dominates_log = [p \in Pairs |-> NoResult]
    /\ NoArrays

\* Lines 253-282: _dominates(trials[i], trials[j], directions).
DominatesCall(i, j) ==
    /\ pc = "dominates"
    /\ dominates_log[<<i, j>>].kind = "none"
    /\ trial0' = Some(trials[i])
    /\ trial1' = Some(trials[j])
    /\ IF /\ ByState(trials[i], trials[j]) = None
          /\ LengthError(trials[i], trials[j], directions) = None
       THEN /\ normalized_values0' =
                   NormalizedValues(trials[i].values, directions)
            /\ normalized_values1' =
                   NormalizedValues(trials[j].values, directions)
       ELSE /\ normalized_values0' = <<>>
            /\ normalized_values1' = <<>>
    /\ dominates_log' =
           [dominates_log EXCEPT ![<<i, j>>] =
               DominatesOutcome(trials[i], trials[j], directions)]
    /\ UNCHANGED <<pc, arrayArgs, frame, result, trials, directions,
                   consider_constraint, pareto_front_2d, pareto_front_nd>>

NextDom == \E i, j \in 1..2 : DominatesCall(i, j)

SpecDom == InitDom /\ [][NextDom]_vars

SaidTrue(outcome) == outcome.kind = "returned" /\ outcome.value

SaidFalse(outcome) == outcome.kind = "returned" /\ ~outcome.value

\* C5: dominates(a, b) and dominates(b, a) are never both true, whatever the
\* states and values of a and b; in particular dominates(a, a) is false.
C5_NeverBothWays ==
    \A i, j \in 1..2 :
        ~(SaidTrue(dominates_log[<<i, j>>]) /\ SaidTrue(dominates_log[<<j, i>>]))

\* C5's case: of two complete trials the first dominates the second, the
\* second does not dominate the first, and the first does not dominate itself.
C5_Witness ==
    /\ trials[1].state = "COMPLETE"
    /\ trials[2].state = "COMPLETE"
    /\ SaidTrue(dominates_log[<<1, 2>>])
    /\ SaidFalse(dominates_log[<<2, 1>>])
    /\ SaidFalse(dominates_log[<<1, 1>>])

\* C6: whatever the direction, an absent value is normalized to +infinity,
\* so on that axis it is never better (smaller) than the normalized value of
\* a trial whose value is present.
C6_AbsentIsWorst ==
    (pc = "dominates" /\ normalized_values0 # <<>>) =>
        \A axis \in 1..Len(normalized_values0) :
            trial0[1].values[axis] = None =>
                /\ normalized_values0[axis] = Inf
                /\ trial1[1].values[axis] # None
                       => normalized_values1[axis] <= normalized_values0[axis]

(***************************************************************************)
(* The two Pareto front functions on the same trials (SpecFront)           *)
(***************************************************************************)
\* Complete trials without constraints have any two values of {absent, 0, 1};
\* a failed trial, a complete trial with a violated constraint and a complete
\* trial with satisfied constraints have the values (0, 0), which no other
\* trial dominates.
FrontTrial(number) ==
    {Trial(number, "COMPLETE", v, None) : v \in [1..2 -> TrialValues(1)]}
    \cup {Trial(number, "FAIL", <<Some(0), Some(0)>>, None),
          Trial(number, "COMPLETE", <<Some(0), Some(0)>>, Some(<<0, 1>>)),
          Trial(number, "COMPLETE", <<Some(0), Some(0)>>, Some(<<-1, 0>>))}

RECURSIVE TrialLists(_)
TrialLists(n) ==
    IF n = 0 THEN {<<>>}
    ELSE {Append(ts, t) : ts \in TrialLists(n - 1), t \in FrontTrial(n - 1)}

InitFront ==
    /\ pc = "front:start"
    /\ trials \in UNION {TrialLists(n) : n \in 0..MaxTrials}
    /\ directions \in [1..2 -> Directions]
    /\ consider_constraint \in BOOLEAN
    /\ pareto_front_2d = NoResult
    /\ pareto_front_nd = NoResult
    /\ trial0 = None
    /\ trial1 = None
    /\ normalized_values0 = <<>>
    /\ normalized_values1 = <<>>
    /\ dominates_log = <<>>
    /\ NoArrays

\* Lines 25-55.
ParetoFront2dCall ==
    /\ pc = "front:start"
    /\ pareto_front_2d' =
           Returned(GetParetoFrontTrials2d(trials, directions, consider_constraint))
    /\ pc' = "front:2d"
    /\ UNCHANGED <<arrayArgs, frame, result, trials, directions,
                   consider_constraint, pareto_front_nd, trial0, trial1,
                   normalized_values0, normalized_values1, dominates_log>>

\* Lines 58-79.
ParetoFrontNdCall ==
    /\ pc = "front:2d"
    /\ pareto_front_nd' =
           Returned(GetParetoFrontTrialsNd(trials, directions, consider_constraint))
    /\ pc' = "front:done"
    /\ UNCHANGED <<arrayArgs, frame, result, trials, directions,
                   consider_constraint, pareto_front_2d, trial0, trial1,
                   normalized_values0, normalized_values1, dominates_log>>

NextFront ==
    \/ ParetoFront2dCall
    \/ ParetoFrontNdCall

SpecFront == InitFront /\ [][NextFront]_vars

\* C9: for two objectives the sorted sweep returns the same set of trials as
\* the pairwise check, identical value vectors and absent values included.
C9_SweepIsPairwise ==
    pc = "front:done" =>
        Range(pareto_front_2d.value) = Range(pareto_front_nd.value)

\* C9's case: of three trials that pass the filter, two with the same values,
\* one of them absent, are on the front and the third is dominated.
C9_Witness ==
    /\ pc = "front:done"
    /\ Len(FilterTrials(trials, consider_constraint)) = 3
    /\ Len(pareto_front_2d.value) = 2
    /\ pareto_front_2d.value[1].values = pareto_front_2d.value[2].values
    /\ \E axis \in 1..2 : pareto_front_2d.value[1].values[axis] = None

=============================================================================
